---- MODULE Spec2Model ----
(***************************************************************************)
(* Model of ProspectIDs (src/ProspectIDs.py): the registry `pids`, a       *)
(* nested mapping fips -> family -> list of letters, and its operations.   *)
(*                                                                         *)
(* A Python str is a sequence of one-character strings.  A Python dict of  *)
(* families is a record [kind |-> "dict", keys, val]: `keys` is the        *)
(* insertion order of the dict, `val` the mapping.  Line 86 of the source  *)
(* rebinds pids[fips] to a Python list of family names: that value is      *)
(* [kind |-> "list", keys, val |-> empty].  The order of the outer dict is *)
(* never read by the program and is not modelled.                          *)
(***************************************************************************)
EXTENDS Integers, Sequences, FiniteSets, TLC

VARIABLES pids, live, last

vars == <<pids, live, last>>

(***************************** bounds **************************************)
\* largest family number the callers use
MaxFamily == 3
\* largest number of identifiers registered at once, and in the list the
\* registry is built from
MaxLive == 3

(***************************** characters **********************************)
DecimalDigits == <<"0", "1", "2", "3", "4", "5", "6", "7", "8", "9">>

UpperLetters ==
  <<"A", "B", "C", "D", "E", "F", "G", "H", "I", "J", "K", "L", "M",
    "N", "O", "P", "Q", "R", "S", "T", "U", "V", "W", "X", "Y", "Z">>

LowerLetters ==
  <<"a", "b", "c", "d", "e", "f", "g", "h", "i", "j", "k", "l", "m",
    "n", "o", "p", "q", "r", "s", "t", "u", "v", "w", "x", "y", "z">>

Range(s) == {s[i] : i \in DOMAIN s}

\* str.isnumeric() is true of the decimal digits and of other numeric
\* characters such as SUPERSCRIPT TWO (written "sup2"), which int() rejects
NumericChars == Range(DecimalDigits) \cup {"sup2"}

\* str.isalpha() is true of letters of either case
AlphaChars == Range(UpperLetters) \cup Range(LowerLetters)

\* ord(): code points of the characters the model uses
Ord(c) ==
  IF \E i \in DOMAIN DecimalDigits : DecimalDigits[i] = c
    THEN 47 + (CHOOSE i \in DOMAIN DecimalDigits : DecimalDigits[i] = c)
  ELSE IF \E i \in DOMAIN UpperLetters : UpperLetters[i] = c
    THEN 64 + (CHOOSE i \in DOMAIN UpperLetters : UpperLetters[i] = c)
  ELSE IF \E i \in DOMAIN LowerLetters : LowerLetters[i] = c
    THEN 96 + (CHOOSE i \in DOMAIN LowerLetters : LowerLetters[i] = c)
  ELSE IF c = "-" THEN 45
  ELSE IF c = "[" THEN 91
  ELSE IF c = "{" THEN 123
  ELSE 178

\* chr(): the inverse of Ord on the same characters
Chr(n) ==
  IF n \in 48..57 THEN DecimalDigits[n - 47]
  ELSE IF n \in 65..90 THEN UpperLetters[n - 64]
  ELSE IF n \in 97..122 THEN LowerLetters[n - 96]
  ELSE IF n = 45 THEN "-"
  ELSE IF n = 91 THEN "["
  ELSE IF n = 123 THEN "{"
  ELSE "sup2"

(***************************** Python helpers ******************************)
Min(a, b) == IF a < b THEN a ELSE b

Max(a, b) == IF a < b THEN b ELSE a

\* s[lo:hi] for 0 <= lo and any hi (a negative hi counts from the end)
PySlice(s, lo, hi) ==
  LET h == IF hi < 0 THEN Max(Len(s) + hi, 0) ELSE Min(hi, Len(s))
      l == Min(lo, Len(s))
  IN  IF l >= h THEN << >> ELSE SubSeq(s, l + 1, h)

\* x in list
InList(x, s) == \E i \in DOMAIN s : s[i] = x

\* [e for e in s if e != x]
Without(s, x) == SelectSeq(s, LAMBDA e : e # x)

\* str.isnumeric()
IsNumeric(s) == Len(s) > 0 /\ \A i \in DOMAIN s : s[i] \in NumericChars

\* str.isalpha()
IsAlpha(s) == Len(s) > 0 /\ \A i \in DOMAIN s : s[i] \in AlphaChars

\* int(s) of a numeric string: -1 stands for the ValueError int() raises
\* on a numeric character that is not a decimal digit
RECURSIVE ParseInt(_)
ParseInt(s) ==
  IF Len(s) = 0 THEN 0
  ELSE LET d == s[Len(s)]
           r == ParseInt(SubSeq(s, 1, Len(s) - 1))
       IN  IF d \notin Range(DecimalDigits) \/ r < 0 THEN -1
           ELSE 10 * r + (Ord(d) - 48)

\* str(n) for n >= 0
RECURSIVE Str(_)
Str(n) ==
  IF n < 10 THEN <<Chr(48 + n)>>
  ELSE Append(Str(n \div 10), Chr(48 + (n % 10)))

\* s.zfill(w)
RECURSIVE ZFill(_, _)
ZFill(s, w) == IF Len(s) >= w THEN s ELSE ZFill(<<"0">> \o s, w)

\* max() of a non-empty list of integers
MaxOf(s) == CHOOSE m \in Range(s) : \A n \in Range(s) : n <= m

(***************************** values **************************************)
\* an argument of a call: a str, or a value that is not a str (None)
PyStr(s) == [isStr |-> TRUE, val |-> s]

NotAStr == [isStr |-> FALSE, val |-> << >>]

\* the outcome of a call: the exception raised ("" for none), the value
\* returned (<< >> for None) and the registry after the call
Return(v, p) == [exc |-> "", ret |-> v, pids |-> p]

Raise(e, p) == [exc |-> e, ret |-> << >>, pids |-> p]

PyTrue == <<"T", "r", "u", "e">>

PyFalse == <<"F", "a", "l", "s", "e">>

EmptyVal == [f \in {} |-> << >>]

NewDict == [kind |-> "dict", keys |-> << >>, val |-> EmptyVal]

\* d[k] = v on a dict of families: a new key goes last
DictSet(d, k, v) ==
  [kind |-> "dict",
   keys |-> IF InList(k, d.keys) THEN d.keys ELSE Append(d.keys, k),
   val  |-> [f \in DOMAIN d.val \cup {k} |-> IF f = k THEN v ELSE d.val[f]]]

\* self.pids[k] = e
PidsSet(p, k, e) == [a \in DOMAIN p \cup {k} |-> IF a = k THEN e ELSE p[a]]

\* del self.pids[k]
PidsDel(p, k) == [a \in DOMAIN p \ {k} |-> p[a]]

(***************************** the registry ********************************)
\* the family slice ends one character early
_decompose_short(pid) ==
  <<PySlice(pid, 0, 5), PySlice(pid, 5, -2), <<pid[Len(pid)]>> >>

_decompose(pid) ==
  <<PySlice(pid, 0, 5), PySlice(pid, 5, -1), <<pid[Len(pid)]>> >>

_is_valid(x) ==
  /\ x.isStr
  /\ Len(x.val) = 9
  /\ IsNumeric(PySlice(x.val, 0, 8))
  /\ IsAlpha(<<x.val[Len(x.val)]>>)

\* length = 0 stands for the default length=False
is_numeric_string(x, length) ==
  /\ x.isStr
  /\ IsNumeric(x.val)
  /\ (length # 0 => Len(x.val) = length)

\* _is_novel on a str of at least one character
_is_novel(p, pid) ==
  LET d      == _decompose(pid)
      fips   == d[1]
      number == d[2]
      letter == d[3]
  IN  IF fips \in DOMAIN p /\ InList(number, p[fips].keys)
        THEN IF p[fips].kind = "list"
               THEN Raise("TypeError", p)
               ELSE IF InList(letter, p[fips].val[number])
                      THEN Return(PyFalse, p)
                      ELSE Return(PyTrue, p)
        ELSE Return(PyTrue, p)

\* self.pids.setdefault(fips, {}).setdefault(number, []).append(letter)
File(p, fips, number, letter) ==
  LET p1 == IF fips \in DOMAIN p THEN p ELSE PidsSet(p, fips, NewDict)
      e  == p1[fips]
  IN  IF e.kind = "list" THEN Raise("AttributeError", p1)
      ELSE LET old == IF InList(number, e.keys) THEN e.val[number] ELSE << >>
           IN  Return(<< >>, PidsSet(p1, fips, DictSet(e, number, Append(old, letter))))

\* the letter is filed before the duplicate is reported
add_files_first(p, x) ==
  IF ~_is_valid(x) THEN Raise("InvalidIdentifier", p)
  ELSE LET nov == _is_novel(p, x.val)
           d   == _decompose(x.val)
       IN  IF nov.exc # "" THEN nov
           ELSE IF nov.ret # PyTrue
             THEN Raise("DuplicateIdentifier", File(p, d[1], d[2], d[3]).pids)
           ELSE File(p, d[1], d[2], d[3])

\* the novelty of the identifier is not checked
add_unchecked(p, x) ==
  IF ~_is_valid(x) THEN Raise("InvalidIdentifier", p)
  ELSE LET d == _decompose(x.val)
       IN  File(p, d[1], d[2], d[3])

add(p, x) ==
  IF ~_is_valid(x) THEN Raise("InvalidIdentifier", p)
  ELSE LET nov == _is_novel(p, x.val)
           d   == _decompose(x.val)
       IN  IF nov.exc # "" THEN nov
           ELSE IF nov.ret # PyTrue THEN Raise("DuplicateIdentifier", p)
           ELSE File(p, d[1], d[2], d[3])

remove(p, x) ==
  IF ~_is_valid(x) THEN Raise("InvalidIdentifier", p)
  ELSE LET nov == _is_novel(p, x.val)
           d   == _decompose(x.val)
           fips   == d[1]
           number == d[2]
           letter == d[3]
       IN  IF nov.exc # "" THEN nov
           ELSE IF nov.ret = PyTrue THEN Raise("UnknownIdentifier", p)
           ELSE LET e       == p[fips]
                    letters == Without(e.val[number], letter)
                    e1      == DictSet(e, number, letters)
                    e2      == [kind |-> "list",
                                keys |-> Without(e1.keys, number),
                                val  |-> EmptyVal]
                IN  IF Len(letters) # 0 THEN Return(<< >>, PidsSet(p, fips, e1))
                    ELSE IF Len(e2.keys) # 0 THEN Return(<< >>, PidsSet(p, fips, e2))
                    ELSE Return(<< >>, PidsDel(p, fips))

\* the families are read through self.pids.setdefault(fips, {}), which files
\* an absent area code
next_available_family_setdefault(p, x) ==
  IF ~is_numeric_string(x, 5) THEN Raise("InvalidAreaCode", p)
  ELSE LET fips == x.val
           p1   == IF fips \in DOMAIN p THEN p ELSE PidsSet(p, fips, NewDict)
       IN  IF p1[fips].kind = "list" THEN Raise("AttributeError", p1)
           ELSE LET numbers == [i \in DOMAIN p1[fips].keys |-> ParseInt(p1[fips].keys[i])]
                                 \o <<0>>
                IN  IF \E i \in DOMAIN numbers : numbers[i] < 0
                      THEN Raise("ValueError", p1)
                    ELSE LET hi == MaxOf(numbers)
                             missing_ids ==
                               SelectSeq([i \in 1..hi |-> i],
                                         LAMBDA n : ~InList(n, numbers))
                                 \o <<hi + 1>>
                         IN  Return(ZFill(Str(missing_ids[1]), 3), p1)

next_available_family(p, x) ==
  IF ~is_numeric_string(x, 5) THEN Raise("InvalidAreaCode", p)
  ELSE LET fips == x.val
       IN  IF fips \in DOMAIN p /\ p[fips].kind = "list"
             THEN Raise("AttributeError", p)
           ELSE LET \* the comprehension builds the list once (<< >> \o)
                    numbers == IF fips \in DOMAIN p
                                 THEN << >> \o [i \in DOMAIN p[fips].keys |->
                                                  ParseInt(p[fips].keys[i])]
                                 ELSE <<0>>
                IN  IF \E i \in DOMAIN numbers : numbers[i] < 0
                      THEN Raise("ValueError", p)
                    ELSE LET hi == MaxOf(numbers)
                             next_with_free_above == hi + 1
                             missing_ids ==
                               SelectSeq([i \in 1..hi |-> i],
                                         LAMBDA n : ~InList(n, numbers))
                                 \o <<next_with_free_above>>
                         IN  Return(ZFill(Str(missing_ids[1]), 3), p)

\* the successor of the letter of the argument, not of the last letter filed
next_available_letter_own(p, x) ==
  IF ~(_is_valid(x) \/ is_numeric_string(x, 8))
    THEN Raise("InvalidIdentifier", p)
  ELSE LET pid    == IF Len(x.val) = 8 THEN x.val \o <<"A">> ELSE x.val
           d      == _decompose(pid)
           fips   == d[1]
           number == d[2]
       IN  IF fips \in DOMAIN p
             THEN IF p[fips].kind = "list" THEN Raise("AttributeError", p)
                  ELSE IF InList(number, p[fips].keys)
                    THEN LET last_letter == d[3]
                         IN  IF last_letter = <<"Z">>
                               THEN Raise("LetterExhausted", p)
                               ELSE Return(<<Chr(Ord(last_letter[1]) + 1)>>, p)
                  ELSE Return(<<"A">>, p)
             ELSE Return(<<"A">>, p)

next_available_letter(p, x) ==
  IF ~(_is_valid(x) \/ is_numeric_string(x, 8))
    THEN Raise("InvalidIdentifier", p)
  ELSE LET pid    == IF Len(x.val) = 8 THEN x.val \o <<"A">> ELSE x.val
           d      == _decompose(pid)
           fips   == d[1]
           number == d[2]
       IN  IF fips \in DOMAIN p
             THEN IF p[fips].kind = "list" THEN Raise("AttributeError", p)
                  ELSE IF InList(number, p[fips].keys)
                    THEN LET letters     == p[fips].val[number]
                             last_letter == letters[Len(letters)]
                         IN  IF last_letter = <<"Z">>
                               THEN Raise("LetterExhausted", p)
                               ELSE Return(<<Chr(Ord(last_letter[1]) + 1)>>, p)
                  ELSE Return(<<"A">>, p)
             ELSE Return(<<"A">>, p)

\* the loop of _populate_pids_from_sql over the fetched rows
RECURSIVE _populate(_, _)
_populate(p, rows) ==
  IF Len(rows) = 0 THEN p
  ELSE LET d == _decompose(rows[1])
       IN  _populate(File(p, d[1], d[2], d[3]).pids, Tail(rows))

(***************************** callers *************************************)
Area1 == <<"1", "2", "3", "4", "5">>

Area2 == <<"1", "2", "3", "4", "6">>

\* the 3-digit family string of a number below 10
Family(n) == <<"0", "0", DecimalDigits[n + 1]>>

Letters == {"A", "B", "Z"}

\* the valid identifiers the callers use: every letter of the first family
\* of the first area, and the first letter of the other families
Ids ==
  {Area1 \o Family(1) \o <<l>> : l \in Letters}
    \cup {Area1 \o Family(n) \o <<"A">> : n \in 2..MaxFamily}
    \cup {Area2 \o Family(1) \o <<"A">>}

\* the 8-digit prefixes of those identifiers
Prefixes == {PySlice(i, 0, 8) : i \in Ids}

\* arguments add and remove reject as invalid
BadIds ==
  {PyStr(Area1 \o Family(1)),
   PyStr(Area1 \o Family(1) \o <<"-">>),
   PyStr(<<"1", "2", "3", "4", "A", "0", "0", "1", "A">>),
   NotAStr}

IdArgs == {PyStr(i) : i \in Ids} \cup BadIds

AreaArgs ==
  {PyStr(Area1), PyStr(Area2), PyStr(<<"1", "2", "3", "4">>),
   PyStr(<<"1", "2", "3", "4", "A">>), NotAStr}

LetterArgs == {PyStr(q) : q \in Prefixes} \cup IdArgs

\* s < t for Python strings (ORDER BY Prospect_ID)
RECURSIVE StrLess(_, _)
StrLess(s, t) ==
  IF Len(t) = 0 THEN FALSE
  ELSE IF Len(s) = 0 THEN TRUE
  ELSE IF s[1] # t[1] THEN Ord(s[1]) < Ord(t[1])
  ELSE StrLess(Tail(s), Tail(t))

\* the rows of a set of identifiers in ascending order
RECURSIVE Sorted(_)
Sorted(S) ==
  IF S = {} THEN << >>
  ELSE LET m == CHOOSE a \in S : \A b \in S \ {a} : StrLess(a, b)
       IN  <<m>> \o Sorted(S \ {m})

Called(op, x, r) == [op |-> op, arg |-> x, exc |-> r.exc, ret |-> r.ret]

Init ==
  \E S \in SUBSET Ids :
    /\ Cardinality(S) <= MaxLive
    /\ pids = _populate(EmptyVal, Sorted(S))
    /\ live = S
    /\ last = Called("init", NotAStr, Return(<< >>, EmptyVal))

Add ==
  \E x \in IdArgs :
    LET r == add(pids, x)
    IN  /\ r.exc = "" => Cardinality(live) < MaxLive
        /\ pids' = r.pids
        /\ live' = IF r.exc = "" THEN live \cup {x.val} ELSE live
        /\ last' = Called("add", x, r)

Remove ==
  \E x \in IdArgs :
    LET r == remove(pids, x)
    IN  /\ pids' = r.pids
        /\ live' = IF r.exc = "" THEN live \ {x.val} ELSE live
        /\ last' = Called("remove", x, r)

IsNovel ==
  \E x \in {a \in IdArgs : a.isStr} :
    LET r == _is_novel(pids, x.val)
    IN  /\ pids' = r.pids
        /\ last' = Called("is_novel", x, r)
        /\ UNCHANGED live

NextAvailableFamily ==
  \E x \in AreaArgs :
    LET r == next_available_family(pids, x)
    IN  /\ pids' = r.pids
        /\ last' = Called("next_available_family", x, r)
        /\ UNCHANGED live

NextAvailableLetter ==
  \E x \in LetterArgs :
    LET r == next_available_letter(pids, x)
    IN  /\ pids' = r.pids
        /\ last' = Called("next_available_letter", x, r)
        /\ UNCHANGED live

\* _is_valid and is_numeric_string do not refer to self.pids
IsValid ==
  \E x \in BadIds \cup {PyStr(Area1 \o Family(1) \o <<"A">>)} :
    /\ last' = Called("is_valid", x,
                      Return(IF _is_valid(x) THEN PyTrue ELSE PyFalse, pids))
    /\ UNCHANGED <<pids, live>>

IsNumericString ==
  \E x \in AreaArgs, length \in {0, 5} :
    /\ last' = Called("is_numeric_string", x,
                      Return(IF is_numeric_string(x, length) THEN PyTrue ELSE PyFalse,
                             pids))
    /\ UNCHANGED <<pids, live>>

Next ==
  \/ Add
  \/ Remove
  \/ IsNovel
  \/ NextAvailableFamily
  \/ NextAvailableLetter
  \/ IsValid
  \/ IsNumericString

Spec == Init /\ [][Next]_vars

(***************************** properties **********************************)
ValidArgs == {PyStr(i) : i \in Ids}

\* the fields of an identifier of 9 characters, by position
AreaOf(i) == SubSeq(i, 1, 5)

FamilyOf(i) == SubSeq(i, 6, 8)

LetterOf(i) == <<i[9]>>

\* is_novel(x) returns True / returns False
Novel(p, x) == _is_novel(p, x.val) = Return(PyTrue, p)

NotNovel(p, x) == _is_novel(p, x.val) = Return(PyFalse, p)

\* the registry by content: the insertion order of a dict of families is
\* not part of its content
Content(p) ==
  [a \in DOMAIN p |->
     IF p[a].kind = "dict" THEN [p[a] EXCEPT !.keys = << >>] ELSE p[a]]

Rejections == {"InvalidIdentifier", "DuplicateIdentifier", "UnknownIdentifier"}

\* C1: after a successful add(x) of a novel valid identifier, is_novel(x)
\* is false; a following remove(x) succeeds, makes is_novel(x) true again
\* and leaves the mapping equal by content to the mapping before the add.
C1_AddThenRemoveRestores ==
  [][(last'.op = "add" /\ last'.exc = "") =>
       LET x == last'.arg
           r == remove(pids', x)
       IN  /\ NotNovel(pids', x)
           /\ r.exc = ""
           /\ Novel(r.pids, x)
           /\ Content(r.pids) = Content(pids)]_vars

\* C2: for every valid identifier x, is_novel(x) is false exactly when x was
\* initially loaded or successfully added and not successfully removed since.
C2_TracksLiveIdentifiers ==
  \A x \in ValidArgs : NotNovel(pids, x) <=> x.val \in live

\* C3: add(x) of a valid identifier that is currently registered is rejected
\* with DuplicateIdentifier.
C3_AddRegisteredIsDuplicate ==
  [][(last'.op = "add" /\ _is_valid(last'.arg) /\ last'.arg.val \in live) =>
       last'.exc = "DuplicateIdentifier"]_vars

\* C4: remove(x) of a valid identifier that is not currently registered is
\* rejected with UnknownIdentifier and with no other kind of failure.
C4_RemoveUnregisteredIsUnknown ==
  [][(last'.op = "remove" /\ _is_valid(last'.arg) /\ last'.arg.val \notin live) =>
       last'.exc = "UnknownIdentifier"]_vars

\* C5: a rejected add or remove (invalid identifier, duplicate on add,
\* unknown on remove) leaves the nested mapping exactly as it was.
C5_RejectedLeavesRegistry ==
  [][(last'.op \in {"add", "remove"} /\ last'.exc \in Rejections) =>
       pids' = pids]_vars

\* a duplicate add has been rejected on a registry that holds identifiers
C5_Witness ==
  /\ last.op = "add"
  /\ last.exc = "DuplicateIdentifier"
  /\ last.arg.val \in live
  /\ Cardinality(DOMAIN pids) = 2

\* the numbers of the families registered under an area code
RegisteredNumbers(a) ==
  {n \in 1..MaxFamily : \E i \in live : AreaOf(i) = a /\ FamilyOf(i) = Family(n)}

\* the smallest positive integer that is not in a set of numbers
LeastFree(N) == CHOOSE n \in 1..(MaxFamily + 1) : n \notin N /\ \A m \in 1..(n - 1) : m \in N

\* C6: next_available_family(area_code) returns the zero-padded smallest
\* positive integer that is not the number of a family currently registered
\* under the area code, also after families were emptied by remove.
C6_NextFamilyIsLeastFree ==
  \A a \in {Area1, Area2} :
    next_available_family(pids, PyStr(a))
      = Return(Family(LeastFree(RegisteredNumbers(a))), pids)

\* the letter after an uppercase letter below Z
Successor(l) == UpperLetters[(CHOOSE k \in DOMAIN UpperLetters : UpperLetters[k] = l) + 1]

\* C7: next_available_letter returns "A" when the area code or the family is
\* not registered; when the family is registered it returns the successor of
\* the last element of the family's letter sequence, and fails with
\* LetterExhausted when that element is "Z".
C7_NextLetterFollowsLast ==
  \A x \in {PyStr(q) : q \in Prefixes} \cup ValidArgs :
    LET a == AreaOf(x.val)
        f == FamilyOf(x.val)
        r == next_available_letter(pids, x)
    IN  IF \E i \in live : AreaOf(i) = a /\ FamilyOf(i) = f
          THEN /\ a \in DOMAIN pids
               /\ pids[a].kind = "dict"
               /\ f \in DOMAIN pids[a].val
               /\ LET letters == pids[a].val[f]
                       l       == letters[Len(letters)]
                   IN  IF l = <<"Z">> THEN r = Raise("LetterExhausted", pids)
                       ELSE r = Return(<<Successor(l[1])>>, pids)
          ELSE r = Return(<<"A">>, pids)

\* C8: whenever next_available_letter(prefix) returns a letter L, the
\* identifier prefix+L is novel and add(prefix+L) is accepted.
C8_IssuedLetterIsNovel ==
  \A q \in Prefixes :
    LET r == next_available_letter(pids, PyStr(q))
        x == PyStr(q \o r.ret)
    IN  r.exc = "" => Novel(pids, x) /\ add(pids, x).exc = ""

\* C9: decompose of an identifier of 9 characters gives an area code of
\* length 5, a family of length 3 and a letter of length 1 whose
\* concatenation is the identifier.
C9_DecomposeRoundTrip ==
  (last.arg.isStr /\ Len(last.arg.val) = 9) =>
    LET d == _decompose(last.arg.val)
    IN  /\ Len(d[1]) = 5
        /\ Len(d[2]) = 3
        /\ Len(d[3]) = 1
        /\ d[1] \o d[2] \o d[3] = last.arg.val

\* an identifier of 9 characters has been decomposed by a successful remove
C9_Witness ==
  /\ last.op = "remove"
  /\ last.exc = ""
  /\ Len(last.arg.val) = 9

\* C10: a successful remove(x) takes exactly the letter of x out of its
\* family's sequence; an emptied family is deleted and every other family of
\* the area code keeps its letters; the area code is deleted only when no
\* family remains; all other area codes are unchanged.
C10_RemoveChangesOnlyItsEntry ==
  [][(last'.op = "remove" /\ last'.exc = "") =>
       LET x       == last'.arg.val
           a       == AreaOf(x)
           f       == FamilyOf(x)
           letters == Without(pids[a].val[f], LetterOf(x))
           others  == DOMAIN pids[a].val \ {f}
       IN  /\ \A b \in DOMAIN pids \ {a} : b \in DOMAIN pids' /\ pids'[b] = pids[b]
           /\ DOMAIN pids' \subseteq DOMAIN pids
           /\ IF letters = << >> /\ others = {}
                 THEN a \notin DOMAIN pids'
                 ELSE /\ a \in DOMAIN pids'
                      /\ pids'[a].kind = "dict"
                      /\ DOMAIN pids'[a].val
                           = IF letters = << >> THEN others ELSE others \cup {f}
                      /\ \A g \in others : pids'[a].val[g] = pids[a].val[g]
                      /\ letters # << >> => pids'[a].val[f] = letters]_vars

\* C11: every area code present in the mapping maps at least one family to
\* a letter sequence, and every family present has a non-empty letter
\* sequence.
C11_NoEmptyEntries ==
  \A a \in DOMAIN pids :
    /\ pids[a].kind = "dict"
    /\ DOMAIN pids[a].val # {}
    /\ \A f \in DOMAIN pids[a].val : pids[a].val[f] # << >>

\* a sequence without a repeated element
NoRepeat(s) == \A i, j \in DOMAIN s : s[i] = s[j] => i = j

\* C12: no letter sequence under any (area_code, family) contains the same
\* letter twice.
C12_NoDuplicateLetters ==
  \A a \in DOMAIN pids :
    \A f \in DOMAIN pids[a].val : NoRepeat(pids[a].val[f])

\* a duplicate add has been rejected on a family that holds two letters
C12_Witness ==
  /\ last.op = "add"
  /\ last.exc = "DuplicateIdentifier"
  /\ \E a \in DOMAIN pids :
       \E f \in DOMAIN pids[a].val :
         /\ Len(pids[a].val[f]) >= 2
         /\ AreaOf(last.arg.val) = a
         /\ FamilyOf(last.arg.val) = f

\* trailing letters of the 9-character form of a query
ProbeLetters == {"A", "Z", "z"}

\* C15: for every 8-digit prefix p and every two letters L1, L2,
\* next_available_letter(p), next_available_letter(p+L1) and
\* next_available_letter(p+L2) have the same outcome (the same returned
\* letter or the same failure).
C15_NextLetterIgnoresLetter ==
  \A q \in Prefixes :
    LET r0 == next_available_letter(pids, PyStr(q))
    IN  \A L1 \in ProbeLetters :
          LET r1 == next_available_letter(pids, PyStr(q \o <<L1>>))
          IN  /\ r0.exc = r1.exc
              /\ r0.ret = r1.ret
              /\ \A L2 \in ProbeLetters :
                   LET r2 == next_available_letter(pids, PyStr(q \o <<L2>>))
                   IN  r1.exc = r2.exc /\ r1.ret = r2.ret

\* the 9-character form has been queried with a trailing letter that is
\* neither the last letter of the family nor its predecessor
C15_Witness ==
  /\ last.op = "next_available_letter"
  /\ last.exc = ""
  /\ Len(last.arg.val) = 9
  /\ last.arg.val[9] = "A"
  /\ last.ret = <<"C">>

SpecifiedErrors ==
  {"InvalidIdentifier", "InvalidAreaCode", "DuplicateIdentifier",
   "UnknownIdentifier", "LetterExhausted"}

\* C17: every call of add, remove, is_novel, next_available_family and
\* next_available_letter returns normally or fails with one of the five
\* specified errors.
C17_OnlySpecifiedErrors ==
  last.op \in {"add", "remove", "is_novel", "next_available_family",
               "next_available_letter"}
    => last.exc \in {""} \cup SpecifiedErrors

QueryOps ==
  {"next_available_family", "next_available_letter", "is_valid", "is_novel",
   "is_numeric_string"}

\* C18: next_available_family, next_available_letter, is_valid, is_novel and
\* is_numeric_string leave the nested mapping unchanged, whether they return
\* or fail; a query of an absent area code or family creates no entry.
C18_QueriesReadOnly ==
  [][last'.op \in QueryOps => pids' = pids]_vars

\* the next family of an absent area code has been asked for while another
\* area code is registered
C18_Witness ==
  /\ last.op = "next_available_family"
  /\ last.exc = ""
  /\ last.arg.val \notin DOMAIN pids
  /\ DOMAIN pids # {}

(***************************** lowercase letters ***************************)
\* callers that also file an identifier whose letter is lowercase, which
\* _is_valid accepts (str.isalpha) and the query of line 32 selects ([a-zA-Z])
LowerIds ==
  {Area1 \o Family(1) \o <<l>> : l \in {"A", "B", "z"}}
    \cup {Area1 \o Family(2) \o <<"A">>}

LowerArgs == {PyStr(i) : i \in LowerIds}

LowerInit ==
  \E S \in SUBSET LowerIds :
    /\ Cardinality(S) <= MaxLive
    /\ pids = _populate(EmptyVal, Sorted(S))
    /\ live = S
    /\ last = Called("init", NotAStr, Return(<< >>, EmptyVal))

LowerAdd ==
  \E x \in LowerArgs :
    LET r == add(pids, x)
    IN  /\ pids' = r.pids
        /\ live' = IF r.exc = "" THEN live \cup {x.val} ELSE live
        /\ last' = Called("add", x, r)

LowerRemove ==
  \E x \in LowerArgs :
    LET r == remove(pids, x)
    IN  /\ pids' = r.pids
        /\ live' = IF r.exc = "" THEN live \ {x.val} ELSE live
        /\ last' = Called("remove", x, r)

LowerNextLetter ==
  \E x \in LowerArgs \cup {PyStr(PySlice(i, 0, 8)) : i \in LowerIds} :
    LET r == next_available_letter(pids, x)
    IN  /\ pids' = r.pids
        /\ last' = Called("next_available_letter", x, r)
        /\ UNCHANGED live

LowerNext ==
  \/ LowerAdd
  \/ LowerRemove
  \/ LowerNextLetter

SpecLower == LowerInit /\ [][LowerNext]_vars

\* C13: whenever next_available_letter returns, the result is a single
\* uppercase letter in A..Z, also for a family that holds an identifier
\* whose trailing character is alphabetic but not uppercase.
C13_NextLetterIsUppercase ==
  (last.op = "next_available_letter" /\ last.exc = "")
    => Len(last.ret) = 1 /\ last.ret[1] \in Range(UpperLetters)

(***************************** a full area code ****************************)
\* the digits of a family (line 6; zfill(3) on line 95)
FamilyDigits == 3

\* the largest family number of that many digits
LargestFamily == 10^FamilyDigits - 1

\* the family string of a number of at most three digits, digit by digit
Family3(n) ==
  <<DecimalDigits[(n \div 100) + 1],
    DecimalDigits[((n \div 10) % 10) + 1],
    DecimalDigits[(n % 10) + 1]>>

\* the fetched rows 12345001A .. 12345<top>A, in ascending order
FullRows(top) == [n \in 1..top |-> Area1 \o Family3(n) \o <<"A">>]

\* the registry _populate_pids_from_sql builds from FullRows(top): one
\* family per row, in the order of the rows, each with the letter A
FullRegistry(top) ==
  [a \in {Area1} |->
     [kind |-> "dict",
      keys |-> [n \in 1..top |-> Family3(n)],
      val  |-> [f \in {Family3(n) : n \in 1..top} |-> << <<"A">> >>]]]

\* the identifiers the callers file and remove at the top of the range
FullIds ==
  {Area1 \o Family3(n) \o <<l>> :
     n \in {LargestFamily - 1, LargestFamily}, l \in {"A", "B"}}

FullInit ==
  \E top \in {LargestFamily - 1, LargestFamily} :
    /\ pids = FullRegistry(top)
    /\ live = Range(FullRows(top))
    /\ last = Called("init", NotAStr, Return(<< >>, EmptyVal))

FullAdd ==
  \E x \in {PyStr(i) : i \in FullIds} :
    LET r == add(pids, x)
    IN  /\ pids' = r.pids
        /\ live' = IF r.exc = "" THEN live \cup {x.val} ELSE live
        /\ last' = Called("add", x, r)

FullRemove ==
  \E x \in {PyStr(i) : i \in FullIds} :
    LET r == remove(pids, x)
    IN  /\ pids' = r.pids
        /\ live' = IF r.exc = "" THEN live \ {x.val} ELSE live
        /\ last' = Called("remove", x, r)

FullNextFamily ==
  \E x \in {PyStr(Area1), PyStr(Area2)} :
    LET r == next_available_family(pids, x)
    IN  /\ pids' = r.pids
        /\ last' = Called("next_available_family", x, r)
        /\ UNCHANGED live

FullNext ==
  \/ FullAdd
  \/ FullRemove
  \/ FullNextFamily

SpecFull == FullInit /\ [][FullNext]_vars

\* C14: the string next_available_family returns is exactly 3 digits long,
\* so that area_code + result + letter is a valid identifier that add
\* accepts, also when every family from 001 to the largest 3-digit number
\* is registered under the area code.
C14_NextFamilyHasThreeDigits ==
  (last.op = "next_available_family" /\ last.exc = "") =>
    LET x == PyStr(last.arg.val \o last.ret \o <<"A">>)
    IN  /\ Len(last.ret) = 3
        /\ \A i \in DOMAIN last.ret : last.ret[i] \in Range(DecimalDigits)
        /\ _is_valid(x)
        /\ add(pids, x).exc = ""

(***************************** issue, then add *****************************)
\* a caller that files under one family only the letter it was just issued
\* by next_available_letter and never removes a letter of that family,
\* while other callers add and remove identifiers of other families
IssuedPrefix == Area1 \o Family(1)

OtherIds == {Area1 \o Family(2) \o <<"A">>, Area2 \o Family(1) \o <<"A">>}

ProtocolInit ==
  \E S \in SUBSET OtherIds :
    /\ pids = _populate(EmptyVal, Sorted(S))
    /\ live = S
    /\ last = Called("init", NotAStr, Return(<< >>, EmptyVal))

Issue ==
  LET x == PyStr(IssuedPrefix)
      r == next_available_letter(pids, x)
  IN  /\ pids' = r.pids
      /\ last' = Called("next_available_letter", x, r)
      /\ UNCHANGED live

AddIssued ==
  /\ last.op = "next_available_letter"
  /\ last.arg = PyStr(IssuedPrefix)
  /\ last.exc = ""
  /\ LET x == PyStr(IssuedPrefix \o last.ret)
         r == add(pids, x)
     IN  /\ pids' = r.pids
         /\ live' = IF r.exc = "" THEN live \cup {x.val} ELSE live
         /\ last' = Called("add", x, r)

OtherAdd ==
  \E x \in {PyStr(i) : i \in OtherIds} :
    LET r == add(pids, x)
    IN  /\ pids' = r.pids
        /\ live' = IF r.exc = "" THEN live \cup {x.val} ELSE live
        /\ last' = Called("add", x, r)

OtherRemove ==
  \E x \in {PyStr(i) : i \in OtherIds} :
    LET r == remove(pids, x)
    IN  /\ pids' = r.pids
        /\ live' = IF r.exc = "" THEN live \ {x.val} ELSE live
        /\ last' = Called("remove", x, r)

ProtocolNext ==
  \/ Issue
  \/ AddIssued
  \/ OtherAdd
  \/ OtherRemove

SpecProtocol == ProtocolInit /\ [][ProtocolNext]_vars

\* the number of letters filed under the family of the protocol
IssuedCount == Cardinality({i \in live : PySlice(i, 0, 8) = IssuedPrefix})

\* C16: under the issue-then-add protocol the letter sequence of the family
\* is A, B, ... in alphabetical order with no gap, and next_available_letter
\* returns the lowest letter not in use, or fails with LetterExhausted once Z
\* is in use.
C16_DenseLettering ==
  LET n == IssuedCount
      r == next_available_letter(pids, PyStr(IssuedPrefix))
  IN  /\ n > 0 =>
           /\ Area1 \in DOMAIN pids
           /\ pids[Area1].kind = "dict"
           /\ Family(1) \in DOMAIN pids[Area1].val
           /\ pids[Area1].val[Family(1)] = [k \in 1..n |-> <<UpperLetters[k]>>]
      /\ IF n = Len(UpperLetters)
           THEN r = Raise("LetterExhausted", pids)
           ELSE r = Return(<<UpperLetters[n + 1]>>, pids)

====
